---- MODULE Spec2Model ----
(***************************************************************************)
(* BrieflyPlanningPoker: the round-based voting of the prisma task         *)
(* extension (vote, registerVoteAndUpdate, calcFinalPoints,                *)
(* validatePoints) for one task of one squad, the squad routes with their  *)
(* event broadcasts, the create of a task and fromSquadDb.                 *)
(*                                                                         *)
(* The specifications share the variables:                                 *)
(*   Spec          every call of vote runs alone, from its first line to   *)
(*                 the end of its update;                                  *)
(*   SpecConc      calls of vote overlap: the handler awaits the load      *)
(*                 (findUniqueOrThrow) and the update separately, so       *)
(*                 other calls run between the two;                        *)
(*   SpecEval      calcFinalPoints applied to bounded inputs;              *)
(*   SpecValidate  the checks of vote applied to bounded inputs;           *)
(*   SpecSquad     update, addUsers, delUsers and createTask of one        *)
(*                 squad, with the sessions listening on its channel;      *)
(*   SpecCreate    task.create of the client extension, as createTask      *)
(*                 calls it;                                               *)
(*   SpecSquadDb   fromSquadDb applied to bounded rows.                    *)
(***************************************************************************)
EXTENDS Integers, Sequences, FiniteSets, TLC

\* ------------------------------------------------------------- bounds ---
MaxPoint == 1        \* points submitted are at most MaxPoint
MaxVotes == 3        \* vote rows stored for the task (caps currentRound)
MaxConcVotes == 2    \* the same cap where calls overlap (SpecConc)
MaxRoundsBound == 3  \* task.maxRounds ranges over 1..MaxRoundsBound
NumCalls == 2        \* calls of vote in flight at once (SpecConc)
MaxEvalLen == 4      \* length of the vote list given to calcFinalPoints
MaxValidationVotes == 2   \* vote rows loaded for the checks (SpecValidate)
MaxValidationRound == 2   \* rounds of the task and its votes (SpecValidate)
MaxEvents == 2       \* broadcasts recorded (SpecSquad)
MaxRouteOps == 2     \* squad updates plus tasks created (SpecSquad)
MaxSquadRounds == 2  \* squad.maxRounds ranges over 1..MaxSquadRounds
MaxDbRows == 3       \* rows given to fromSquadDb

Users == {"u1", "u2", "u3"}
Calls == 1..NumCalls

\* task.percentual is a Decimal fraction; the model holds it in hundredths.
\* The schema puts no range on it, so 0 is a value a squad can carry.
PercentValues == {0, 60, 100}

\* vote reads the fraction only for being zero or not, so the task of Spec
\* and SpecConc carries one value of each kind
TaskPercentValues == {0, 60}

\* the squads of the task, up to renaming of users: u3 (and u2) stay
\* outside the smaller ones
Squads == {{"u1"}, {"u1", "u2"}, {"u1", "u2", "u3"}}

\* point values given to calcFinalPoints in SpecEval
EvalPoints == {2, 3, 5, 8}

\* `undefined` / null of an optional number (points are never negative)
Undefined == -1

\* What a caller passes as points: a JS number, integer or not.
\* value is the integer part; isInteger is Number.isInteger(points).
PointInputs ==
    {[isInteger |-> TRUE, value |-> v] : v \in (-1)..MaxPoint}
        \cup {[isInteger |-> FALSE, value |-> 0]}

VARIABLES
    task,         \* the task row: maxRounds, percentual, currentRound,
                  \* points, finished, active
    votes,        \* the task's vote rows, in the order they were created
    squadUsers,   \* the users of the task's squad
    last,         \* what the most recent call of vote came to
    completions,  \* (user, round) of the stored votes whose call took the
                  \* "round must be ended" branch
    calls,        \* SpecConc: the calls between their load and their update
    ev,           \* SpecEval: arguments and result of calcFinalPoints
    va,           \* SpecValidate: arguments and result of the checks of vote
    sessions,     \* the users with a live event session (sse.getSession)
    channel,      \* the squad's channel: whether it exists, and the users
                  \* whose session is registered on it
    events,       \* what the handlers broadcast, in order: the event and
                  \* the users whose session received it
    resp,         \* what the most recent squad handler answered
    squadRow,     \* the squad row: updates applied, tasks connected
    tc,           \* SpecCreate: the squads stored, the data of a create
                  \* request, the task rows stored and the answer
    sdb           \* SpecSquadDb: rows given to fromSquadDb and its result

\* the state of the squad routes and of the event sessions
routeVars == <<sessions, channel, events, resp, squadRow>>

vars == <<task, votes, squadUsers, last, completions, calls, ev, va,
          sessions, channel, events, resp, squadRow, tc, sdb>>

\* ------------------------------------------------------ calcFinalPoints ---

\* hist.set(vote.points, (hist.get(vote.points) ?? 0) + 1): a Map keeps a
\* key at the position of its first insertion.
HistSet(h, p) ==
    IF \E i \in DOMAIN h : h[i][1] = p
    THEN [i \in DOMAIN h |-> IF h[i][1] = p THEN <<p, h[i][2] + 1>> ELSE h[i]]
    ELSE Append(h, <<p, 1>>)

RECURSIVE HistOf(_, _)
HistOf(vs, h) ==
    IF vs = <<>> THEN h
    ELSE HistOf(Tail(vs), HistSet(h, Head(vs).points))

\* insert e behind every entry whose frequency is at least e's
RECURSIVE InsertByFreq(_, _)
InsertByFreq(s, e) ==
    IF s = <<>> THEN <<e>>
    ELSE IF Head(s)[2] >= e[2] THEN <<Head(s)>> \o InsertByFreq(Tail(s), e)
    ELSE <<e>> \o s

\* [...hist.entries()].sort(([a, b], [c, d]) => d - b): by frequency,
\* descending; Array.prototype.sort is stable, so entries of equal
\* frequency stay in insertion order.
RECURSIVE SortHist(_)
SortHist(h) ==
    IF h = <<>> THEN <<>>
    ELSE InsertByFreq(SortHist(SubSeq(h, 1, Len(h) - 1)), h[Len(h)])

calcFinalPoints(vs, currentRound, maxRounds, minPercentual) ==
    LET minFreq == Len(vs) * minPercentual
        orderedHist == SortHist(HistOf(vs, <<>>))
    IN  IF \E i \in DOMAIN orderedHist : minFreq # 0
        THEN orderedHist[1][1]
        ELSE IF currentRound = maxRounds
        THEN orderedHist[1][1]
        ELSE Undefined

\* ------------------------------------------------------------- vote ------

\* validatePoints throws unless this holds
validatePoints(pin) == pin.isInteger /\ pin.value >= 0

\* the checks of vote with the squad looked at before the task's state
voteValidation_memberFirst(t, vs, sq, email, pin) ==
    IF ~validatePoints(pin) THEN "InvalidPoints"
    ELSE IF \A u \in sq : u # email THEN "NotSquadMember"
    ELSE IF ~t.active THEN "TaskNotVotable"
    ELSE IF \E i \in DOMAIN vs :
                vs[i].round = t.currentRound /\ vs[i].user = email
    THEN "DuplicateVote"
    ELSE "Ok"

\* The checks of vote, in the order the handler makes them.
voteValidation(t, vs, sq, email, pin) ==
    IF ~validatePoints(pin) THEN "InvalidPoints"
    ELSE IF ~t.active THEN "TaskNotVotable"
    ELSE IF \A u \in sq : u # email THEN "NotSquadMember"
    ELSE IF \E i \in DOMAIN vs :
                vs[i].round = t.currentRound /\ vs[i].user = email
    THEN "DuplicateVote"
    ELSE "Ok"

\* What vote hands to registerVoteAndUpdate once the checks passed.
voteArgs(t, vs, sq, email, pin) ==
    LET round == t.currentRound
        userVote == [user |-> email, round |-> round, points |-> pin.value]
        roundVotes == SelectSeq(vs, LAMBDA v : v.round = round) \o <<userVote>>
        complete == ~(Len(vs) # Cardinality(sq) - 1)
    IN  [userVote |-> userVote,
         complete |-> complete,
         points   |-> IF complete
                      THEN calcFinalPoints(roundVotes, round, t.maxRounds,
                                           t.percentual)
                      ELSE Undefined]

\* votes: { create: ... }: the store refuses a second row for the same
\* (task, user, round)
VoteConflict(vs, userVote) ==
    \E i \in DOMAIN vs :
        vs[i].user = userVote.user /\ vs[i].round = userVote.round

\* extraArgs that closes the task without taking it out of voting
extraArgs_keepsActive(t, points) ==
    IF points # Undefined /\ points # 0
    THEN [t EXCEPT !.points = points, !.finished = TRUE]
    ELSE t

\* extraArgs that closes the task and forgets the points
extraArgs_withoutPoints(t, points) ==
    IF points # Undefined /\ points # 0
    THEN [t EXCEPT !.active = FALSE, !.finished = TRUE]
    ELSE t

\* const extraArgs = points ? ({points, active: false, finished: true}) : {}
\* (undefined and 0 are both falsy)
extraArgs(t, points) ==
    IF points # Undefined /\ points # 0
    THEN [t EXCEPT !.points = points, !.active = FALSE, !.finished = TRUE]
    ELSE t

\* registerVoteAndUpdate writing the vote with upsert instead of create:
\* a row of the same (user, round) takes the new points
registerVoteAndUpdate_upsert(t, vs, userVote, points, nextRound) ==
    [ok    |-> TRUE,
     task  |-> extraArgs([t EXCEPT !.currentRound =
                              @ + (IF nextRound THEN 1 ELSE 0)], points),
     votes |-> IF VoteConflict(vs, userVote)
               THEN [i \in DOMAIN vs |->
                        IF vs[i].user = userVote.user
                           /\ vs[i].round = userVote.round
                        THEN userVote ELSE vs[i]]
               ELSE Append(vs, userVote)]

\* prisma.task.update: one statement, all of it or nothing
registerVoteAndUpdate(t, vs, userVote, points, nextRound) ==
    IF VoteConflict(vs, userVote)
    THEN [ok |-> FALSE, task |-> t, votes |-> vs]
    ELSE [ok    |-> TRUE,
          task  |-> extraArgs([t EXCEPT !.currentRound =
                                   @ + (IF nextRound THEN 1 ELSE 0)], points),
          votes |-> Append(vs, userVote)]

\* last.valid: the points of the call were an integer >= 0
NoLast == [outcome |-> "None", user |-> "u1", round |-> 0,
           complete |-> FALSE, valid |-> TRUE]
IdleCall == [pc |-> "idle", userVote |-> [user |-> "u1", round |-> 0,
             points |-> 0], points |-> Undefined, complete |-> FALSE]
NoEval == [votes |-> <<>>, currentRound |-> 1, maxRounds |-> 1,
           minPercentual |-> 0, result |-> Undefined, pc |-> "none"]
NoValidation == [task |-> [currentRound |-> 1, active |-> TRUE,
                           finished |-> FALSE],
                 votes |-> <<>>, squad |-> {}, email |-> "u1",
                 pin |-> [isInteger |-> TRUE, value |-> 0],
                 result |-> "None", pc |-> "none"]
NoChannel == [exists |-> FALSE, subs |-> {}]
NoResp == [op |-> "none", status |-> "none", persisted |-> FALSE]

\* no squad handler has run, nobody listens
NoCreate == [squads |-> <<>>, data |-> <<>>, tasks |-> <<>>,
             status |-> "none", pc |-> "none"]

NoSquadDb == [rows |-> <<>>, result |-> <<>>, pc |-> "none"]

NoRoutes ==
    /\ sessions = {}
    /\ channel = NoChannel
    /\ events = <<>>
    /\ resp = NoResp
    /\ squadRow = [rev |-> 0, tasks |-> 0]

\* A task as the task-create extension leaves it: currentRound 1, active,
\* not finished, no points, no votes.
InitTask ==
    /\ squadUsers \in Squads
    /\ task \in [maxRounds : 1..MaxRoundsBound, percentual : TaskPercentValues,
                 currentRound : {1}, points : {Undefined},
                 finished : {FALSE}, active : {TRUE}]
    /\ votes = <<>>
    /\ last = NoLast
    /\ completions = {}
    /\ calls = [c \in Calls |-> IdleCall]

Init ==
    /\ InitTask
    /\ ev = NoEval /\ va = NoValidation /\ NoRoutes
    /\ tc = NoCreate /\ sdb = NoSquadDb

\* vote storing the vote before it looks at the squad: a call of a user
\* outside the squad throws after the update
vote_writesBeforeMemberCheck(email, pin) ==
    LET res == voteValidation(task, votes, squadUsers, email, pin)
        a == voteArgs(task, votes, squadUsers, email, pin)
        r == registerVoteAndUpdate(task, votes, a.userVote, a.points, TRUE)
    IN  /\ res \in {"Ok", "NotSquadMember"} => Len(votes) < MaxVotes
        /\ IF res \notin {"Ok", "NotSquadMember"}
           THEN /\ last' = [outcome |-> res, user |-> email,
                            round |-> task.currentRound, complete |-> FALSE,
                            valid |-> pin.isInteger /\ pin.value >= 0]
                /\ UNCHANGED <<task, votes, completions>>
           ELSE /\ task' = r.task
                /\ votes' = r.votes
                /\ UNCHANGED completions
                /\ last' = [outcome |-> IF res = "NotSquadMember" THEN res
                                        ELSE IF r.ok THEN "Updated"
                                        ELSE "Conflict",
                            user |-> email, round |-> a.userVote.round,
                            complete |-> a.complete, valid |-> TRUE]
        /\ UNCHANGED <<squadUsers, calls, ev, va, routeVars, tc, sdb>>

\* One whole call of vote(taskId, email, points).
vote(email, pin) ==
    LET res == voteValidation(task, votes, squadUsers, email, pin)
        a == voteArgs(task, votes, squadUsers, email, pin)
        r == registerVoteAndUpdate(task, votes, a.userVote, a.points, TRUE)
    IN  /\ res = "Ok" => Len(votes) < MaxVotes
        /\ IF res # "Ok"
           THEN /\ last' = [outcome |-> res, user |-> email,
                            round |-> task.currentRound, complete |-> FALSE,
                            valid |-> pin.isInteger /\ pin.value >= 0]
                /\ UNCHANGED <<task, votes, completions>>
           ELSE /\ task' = r.task
                /\ votes' = r.votes
                /\ completions' =
                       IF r.ok /\ a.complete
                       THEN completions \cup
                                {[user |-> email, round |-> a.userVote.round]}
                       ELSE completions
                /\ last' = [outcome |-> IF r.ok THEN "Updated" ELSE "Conflict",
                            user |-> email, round |-> a.userVote.round,
                            complete |-> a.complete, valid |-> TRUE]
        /\ UNCHANGED <<squadUsers, calls, ev, va, routeVars, tc, sdb>>

Next == \E email \in Users, pin \in PointInputs : vote(email, pin)

Spec == Init /\ [][Next]_vars

\* --------------------------------------------- overlapping calls of vote ---

InFlight == Cardinality({c \in Calls : calls[c].pc = "update"})

\* vote up to the end of `await prisma.task.findUniqueOrThrow` and the
\* checks and computations on the loaded task; a call that throws ends here.
load(c, email, pin) ==
    LET res == voteValidation(task, votes, squadUsers, email, pin)
        a == voteArgs(task, votes, squadUsers, email, pin)
    IN  /\ calls[c].pc = "idle"
        \* calls are anonymous: a new one takes the first free place
        /\ \A d \in Calls : d < c => calls[d].pc = "update"
        /\ res = "Ok" => Len(votes) + InFlight < MaxConcVotes
        /\ IF res # "Ok"
           THEN /\ last' = [outcome |-> res, user |-> email,
                            round |-> task.currentRound, complete |-> FALSE,
                            valid |-> pin.isInteger /\ pin.value >= 0]
                /\ UNCHANGED calls
           ELSE /\ calls' = [calls EXCEPT ![c] =
                       [pc |-> "update", userVote |-> a.userVote,
                        points |-> a.points, complete |-> a.complete]]
                /\ UNCHANGED last
        /\ UNCHANGED <<task, votes, squadUsers, completions, ev, va,
                       routeVars, tc, sdb>>

\* the prisma.task.update of registerVoteAndUpdate, on the rows as they
\* are when the statement runs
update(c) ==
    LET a == calls[c]
        r == registerVoteAndUpdate(task, votes, a.userVote, a.points, TRUE)
    IN  /\ a.pc = "update"
        /\ task' = r.task
        /\ votes' = r.votes
        /\ completions' =
               IF r.ok /\ a.complete
               THEN completions \cup
                        {[user |-> a.userVote.user, round |-> a.userVote.round]}
               ELSE completions
        /\ last' = [outcome |-> IF r.ok THEN "Updated" ELSE "Conflict",
                    user |-> a.userVote.user, round |-> a.userVote.round,
                    complete |-> a.complete, valid |-> TRUE]
        /\ calls' = [calls EXCEPT ![c] = IdleCall]
        /\ UNCHANGED <<squadUsers, ev, va, routeVars, tc, sdb>>

NextConc ==
    \/ \E c \in Calls, email \in Users, pin \in PointInputs : load(c, email, pin)
    \/ \E c \in Calls : update(c)

SpecConc == Init /\ [][NextConc]_vars

\* ------------------------------------------- calcFinalPoints on its own ---

EvalVotes ==
    UNION {[1..n -> [points : EvalPoints]] : n \in 1..MaxEvalLen}

InitEval ==
    /\ squadUsers = Users
    /\ task = [maxRounds |-> 1, percentual |-> 0, currentRound |-> 1,
               points |-> Undefined, finished |-> FALSE, active |-> TRUE]
    /\ votes = <<>>
    /\ last = NoLast
    /\ completions = {}
    /\ calls = [c \in Calls |-> IdleCall]
    /\ va = NoValidation
    /\ NoRoutes
    /\ tc = NoCreate /\ sdb = NoSquadDb
    /\ ev \in {e \in [votes : EvalVotes, currentRound : 1..MaxRoundsBound,
                       maxRounds : 1..MaxRoundsBound,
                       minPercentual : PercentValues,
                       result : {Undefined}, pc : {"start"}] :
                   e.currentRound <= e.maxRounds}

Evaluate ==
    /\ ev.pc = "start"
    /\ ev' = [ev EXCEPT !.result = calcFinalPoints(ev.votes, ev.currentRound,
                                       ev.maxRounds, ev.minPercentual),
                        !.pc = "done"]
    /\ UNCHANGED <<task, votes, squadUsers, last, completions, calls, va,
                   routeVars, tc, sdb>>

NextEval == Evaluate

SpecEval == InitEval /\ [][NextEval]_vars

\* ------------------------------------------- the checks of vote alone ---

\* the vote rows the load can return: a few rows of any user and round
ValidationVotes ==
    UNION {[1..n -> [user : Users, round : 1..MaxValidationRound,
                     points : {0}]] : n \in 0..MaxValidationVotes}

\* The checks of vote read the task and its squad as the store holds them
\* when the call loads them: a task open, closed or finalized (a finished
\* task is never active), in any round, a squad that may have lost or
\* gained users since the votes were stored.
InitValidate ==
    /\ squadUsers = Users
    /\ task = [maxRounds |-> 1, percentual |-> 0, currentRound |-> 1,
               points |-> Undefined, finished |-> FALSE, active |-> TRUE]
    /\ votes = <<>>
    /\ last = NoLast
    /\ completions = {}
    /\ calls = [c \in Calls |-> IdleCall]
    /\ ev = NoEval
    /\ NoRoutes
    /\ tc = NoCreate /\ sdb = NoSquadDb
    /\ va \in {v \in [task : [currentRound : 1..MaxValidationRound,
                              active : BOOLEAN, finished : BOOLEAN],
                       votes : ValidationVotes, squad : Squads,
                       email : Users, pin : PointInputs,
                       result : {"None"}, pc : {"start"}] :
                   v.task.finished => ~v.task.active}

Validate ==
    /\ va.pc = "start"
    /\ va' = [va EXCEPT !.result = voteValidation(va.task, va.votes, va.squad,
                                                  va.email, va.pin),
                        !.pc = "done"]
    /\ UNCHANGED <<task, votes, squadUsers, last, completions, calls, ev,
                   routeVars, tc, sdb>>

NextValidate == Validate

SpecValidate == InitValidate /\ [][NextValidate]_vars

\* ------------------------------------------------- the squad routes ------
\* update, addUsers, delUsers and createTask of routes/squad.ts, for one
\* squad.  Each handler awaits its prisma statement inside try, then talks
\* to the sse module, then answers; catch hands every error to next.

voteVars == <<task, votes, last, completions, calls, ev, va>>

\* sse.register(id, session): the squad's channel, created if need be,
\* with the session on it
sseRegister(ch, u) == [exists |-> TRUE, subs |-> ch.subs \cup {u}]

\* channel.broadcast(data, name) reaching the sessions in got
sseBroadcast(evs, name, got) == Append(evs, [event |-> name, to |-> got])

\* the sessions a broadcast reaches: all of the channel's, or, when
\* broadcast throws, those served before it threw
Reached(ch, throws) == IF throws THEN SUBSET ch.subs ELSE {ch.subs}

\* `if(channel) channel.broadcast(data, name)` after a statement that
\* succeeded, and the answer, for the handler op
broadcastIfChannel(op, name, throws) ==
    IF channel.exists
    THEN /\ \E got \in Reached(channel, throws) :
                events' = sseBroadcast(events, name, got)
         /\ resp' = [op |-> op, status |-> IF throws THEN "error" ELSE "ok",
                     persisted |-> TRUE]
    ELSE /\ UNCHANGED events
         /\ resp' = [op |-> op, status |-> "ok", persisted |-> TRUE]

\* update: PUT /:squadId
squadUpdate(persistFails, throws) ==
    /\ Len(events) < MaxEvents
    /\ squadRow.rev + squadRow.tasks < MaxRouteOps
    /\ IF persistFails
       THEN /\ resp' = [op |-> "update", status |-> "error",
                        persisted |-> FALSE]
            /\ UNCHANGED <<squadRow, events>>
       ELSE /\ squadRow' = [squadRow EXCEPT !.rev = @ + 1]
            /\ broadcastIfChannel("update", "squadUpdated", throws)
    /\ UNCHANGED <<squadUsers, sessions, channel, voteVars, tc, sdb>>

\* addUsers: POST /:squadId/users.  The create of the membership row fails
\* for a user already in the squad (userEmail_squadId is unique).
addUsers(email, persistFails, registerThrows, throws) ==
    /\ Len(events) < MaxEvents
    /\ IF persistFails \/ email \in squadUsers
       THEN /\ resp' = [op |-> "addUsers", status |-> "error",
                        persisted |-> FALSE]
            /\ UNCHANGED <<squadUsers, channel, events>>
       ELSE /\ squadUsers' = squadUsers \cup {email}
            /\ IF email \notin sessions
               THEN /\ resp' = [op |-> "addUsers", status |-> "ok",
                                persisted |-> TRUE]
                    /\ UNCHANGED <<channel, events>>
               ELSE IF registerThrows
               THEN /\ resp' = [op |-> "addUsers", status |-> "error",
                                persisted |-> TRUE]
                    /\ UNCHANGED <<channel, events>>
               ELSE /\ channel' = sseRegister(channel, email)
                    /\ \E got \in Reached(channel', throws) :
                           events' = sseBroadcast(events, "addedUser", got)
                    /\ resp' = [op |-> "addUsers",
                                status |-> IF throws THEN "error" ELSE "ok",
                                persisted |-> TRUE]
    /\ UNCHANGED <<squadRow, sessions, voteVars, tc, sdb>>

\* delUsers: DELETE /:squadId/users.  Nothing is said to the sse module.
delUsers(email, persistFails) ==
    /\ IF persistFails \/ email \notin squadUsers
       THEN /\ resp' = [op |-> "delUsers", status |-> "error",
                        persisted |-> FALSE]
            /\ UNCHANGED squadUsers
       ELSE /\ squadUsers' = squadUsers \ {email}
            /\ resp' = [op |-> "delUsers", status |-> "ok",
                        persisted |-> TRUE]
    /\ UNCHANGED <<squadRow, sessions, channel, events, voteVars, tc, sdb>>

\* createTask with the broadcast placed before the transaction
createTask_broadcastsFirst(persistFails, throws) ==
    /\ Len(events) < MaxEvents
    /\ squadRow.rev + squadRow.tasks < MaxRouteOps
    /\ squadRow' = IF persistFails THEN squadRow
                   ELSE [squadRow EXCEPT !.tasks = @ + 1]
    /\ IF channel.exists /\ ~throws
       THEN events' = sseBroadcast(events, "taskCreated", channel.subs)
       ELSE UNCHANGED events
    /\ resp' = [op |-> "createTask",
                status |-> IF persistFails \/ throws THEN "error" ELSE "ok",
                persisted |-> ~persistFails]
    /\ UNCHANGED <<squadUsers, sessions, channel, voteVars, tc, sdb>>

\* createTask: POST /:squadId/tasks.  The transaction creates the task and
\* connects it to the squad, or does neither.
createTask(persistFails, throws) ==
    /\ Len(events) < MaxEvents
    /\ squadRow.rev + squadRow.tasks < MaxRouteOps
    /\ IF persistFails
       THEN /\ resp' = [op |-> "createTask", status |-> "error",
                        persisted |-> FALSE]
            /\ UNCHANGED <<squadRow, events>>
       ELSE /\ squadRow' = [squadRow EXCEPT !.tasks = @ + 1]
            /\ broadcastIfChannel("createTask", "taskCreated", throws)
    /\ UNCHANGED <<squadUsers, sessions, channel, voteVars, tc, sdb>>

\* A squad with some users, some of the users with a live session, and
\* the squad's channel, if there is one, holding sessions of its users.
InitSquad ==
    /\ squadUsers \in SUBSET Users
    /\ sessions \in SUBSET Users
    /\ channel \in {NoChannel} \cup
                   {[exists |-> TRUE, subs |-> S] :
                        S \in SUBSET (sessions \cap squadUsers)}
    /\ events = <<>>
    /\ resp = NoResp
    /\ squadRow = [rev |-> 0, tasks |-> 0]
    /\ task = [maxRounds |-> 1, percentual |-> 0, currentRound |-> 1,
               points |-> Undefined, finished |-> FALSE, active |-> TRUE]
    /\ votes = <<>>
    /\ last = NoLast
    /\ completions = {}
    /\ calls = [c \in Calls |-> IdleCall]
    /\ ev = NoEval
    /\ va = NoValidation
    /\ tc = NoCreate /\ sdb = NoSquadDb

NextSquad ==
    \/ \E f \in BOOLEAN, t \in BOOLEAN : squadUpdate(f, t)
    \/ \E u \in Users, f \in BOOLEAN, r \in BOOLEAN, t \in BOOLEAN :
           addUsers(u, f, r, t)
    \/ \E u \in Users, f \in BOOLEAN : delUsers(u, f)
    \/ \E f \in BOOLEAN, t \in BOOLEAN : createTask(f, t)

SpecSquad == InitSquad /\ [][NextSquad]_vars

\* ---------------------------------------------------- creating a task ---
\* createTask of routes/squad.ts handing {...req.body, squadId} to
\* task.create, and the create of the prisma client extension that fills
\* in the squad's settings.

SquadIds == {"s1", "s2"}

\* `null` in the data of a request (undefined is Undefined)
Null == -2

\* no row under a squad id
NoSquad == [exists |-> FALSE, maxRounds |-> Undefined,
            percentual |-> Undefined]

\* what the store holds under a squad id
SquadRows ==
    {NoSquad} \cup [exists : {TRUE}, maxRounds : 1..MaxSquadRounds,
                    percentual : PercentValues \ {0}]

\* the data of a create request: the squad id of the path, and the two
\* fields as the body gives them, null, or not at all
CreateData ==
    [squadId : SquadIds,
     maxRounds : {Null, Undefined} \cup 0..MaxSquadRounds,
     percentual : {Null, Undefined} \cup PercentValues]

\* x ||= d: every falsy x gives way to d
NullishAssign_falsy(x, d) == IF x \in {Null, Undefined, 0} THEN d ELSE x

\* x ??= d
NullishAssign(x, d) == IF x \in {Null, Undefined} THEN d ELSE x

\* query.task.create of the extension: findUniqueOrThrow of the squad named
\* in the data, the two assignments, then the create itself
taskCreate(squads, data) ==
    LET squad == squads[data.squadId]
    IN  IF ~squad.exists
        THEN [throws |-> TRUE, row |-> data]
        ELSE [throws |-> FALSE,
              row |-> [data EXCEPT
                         !.maxRounds = NullishAssign(@, squad.maxRounds),
                         !.percentual = NullishAssign(@, squad.percentual)]]

InitCreate ==
    /\ squadUsers = Users
    /\ task = [maxRounds |-> 1, percentual |-> 0, currentRound |-> 1,
               points |-> Undefined, finished |-> FALSE, active |-> TRUE]
    /\ votes = <<>>
    /\ last = NoLast
    /\ completions = {}
    /\ calls = [c \in Calls |-> IdleCall]
    /\ ev = NoEval /\ va = NoValidation /\ NoRoutes
    /\ sdb = NoSquadDb
    /\ tc \in [squads : [SquadIds -> SquadRows], data : CreateData,
                tasks : {<<>>}, status : {"none"}, pc : {"start"}]

\* the transaction of createTask: a throw of task.create leaves no task row
createTaskTx ==
    /\ tc.pc = "start"
    /\ LET r == taskCreate(tc.squads, tc.data)
       IN  tc' = [tc EXCEPT
                    !.tasks = IF r.throws THEN @ ELSE Append(@, r.row),
                    !.status = IF r.throws THEN "error" ELSE "ok",
                    !.pc = "done"]
    /\ UNCHANGED <<squadUsers, voteVars, routeVars, sdb>>

NextCreate == createTaskTx

SpecCreate == InitCreate /\ [][NextCreate]_vars

\* -------------------------------------------------------- fromSquadDb ---
\* fromSquadDb turns the rows of a squads-with-users query, one row per
\* squad and user, into one entry per squad with its members.

SquadNames == {"A", "B"}

\* the rows a query can give: every squad id comes with the name of its
\* squad, and no (squad, user) pair comes twice; two squads can carry the
\* same name
DbRows ==
    UNION {
      {rows \in UNION {[1..n -> [squadId : SquadIds, squad : SquadNames,
                                 userId : Users]] : n \in 0..MaxDbRows} :
          /\ \A i \in DOMAIN rows : rows[i].squad = nameOf[rows[i].squadId]
          /\ \A i, j \in DOMAIN rows :
                 (/\ rows[i].squadId = rows[j].squadId
                  /\ rows[i].userId = rows[j].userId) => i = j} :
      nameOf \in [SquadIds -> SquadNames]}

\* the loop over squads: an entry is pushed for a name not yet among the
\* entries, from the rows carrying that name
RECURSIVE fromSquadDbLoop(_, _, _)
fromSquadDbLoop(squads, squadsDb, loadedSquads) ==
    IF squads = <<>> THEN loadedSquads
    ELSE LET squad == Head(squads)
             resDb == SelectSeq(squadsDb, LAMBDA res : res.squad = squad)
         IN  IF \E idx \in DOMAIN loadedSquads :
                    loadedSquads[idx].squad = squad
             THEN fromSquadDbLoop(Tail(squads), squadsDb, loadedSquads)
             ELSE fromSquadDbLoop(Tail(squads), squadsDb,
                      Append(loadedSquads,
                             [id |-> resDb[1].squadId,
                              squad |-> resDb[1].squad,
                              members |-> [i \in DOMAIN resDb |->
                                              resDb[i].userId]]))

fromSquadDb(squadsDb) ==
    fromSquadDbLoop([i \in DOMAIN squadsDb |-> squadsDb[i].squad],
                    squadsDb, <<>>)

InitSquadDb ==
    /\ squadUsers = Users
    /\ task = [maxRounds |-> 1, percentual |-> 0, currentRound |-> 1,
               points |-> Undefined, finished |-> FALSE, active |-> TRUE]
    /\ votes = <<>>
    /\ last = NoLast
    /\ completions = {}
    /\ calls = [c \in Calls |-> IdleCall]
    /\ ev = NoEval /\ va = NoValidation /\ NoRoutes
    /\ tc = NoCreate
    /\ sdb \in [rows : DbRows, result : {<<>>}, pc : {"start"}]

LoadSquads ==
    /\ sdb.pc = "start"
    /\ sdb' = [sdb EXCEPT !.result = fromSquadDb(sdb.rows), !.pc = "done"]
    /\ UNCHANGED <<squadUsers, voteVars, routeVars, tc>>

NextSquadDb == LoadSquads

SpecSquadDb == InitSquadDb /\ [][NextSquadDb]_vars

\* ================================================================ claims ===

SquadSize == Cardinality(squadUsers)

\* the users with a stored vote of round r
VotersIn(vs, r) == {vs[i].user : i \in {j \in DOMAIN vs : vs[j].round = r}}

\* how many of the votes vs carry the points p
CountOf(vs, p) == Cardinality({i \in DOMAIN vs : vs[i].points = p})

\* ceil(percentualThreshold * n), the threshold in hundredths
RequiredCount(pct, n) == (pct * n + 99) \div 100

\* the threshold of the task is a fraction in (0, 1], as the data model
\* of the voting engine has it
ThresholdInRange == task.percentual > 0 /\ task.percentual <= 100

\* the step ends a call that had loaded the task earlier (SpecConc)
UpdateStep == \E c \in Calls : calls[c].pc = "update" /\ calls'[c].pc = "idle"

\* C1: a call of vote that stored its vote reports the round complete if
\* and only if the distinct voters of that round, the new vote included,
\* are as many as the squad has users; votes of earlier rounds do not count.
C1_CompleteIffAllVoted ==
    (ThresholdInRange /\ last.outcome = "Updated") =>
        (last.complete <=>
            Cardinality(VotersIn(votes, last.round)) = SquadSize)

\* C2: evaluated in a round below maxRounds with no point value reaching
\* ceil(percentual * number of votes), calcFinalPoints gives no final points
\* (the round advances, the task is not finalized).
C2_AdvanceWithoutConsensus ==
    (/\ ev.pc = "done"
     /\ ev.currentRound < ev.maxRounds
     /\ \A p \in EvalPoints :
            CountOf(ev.votes, p) <
                RequiredCount(ev.minPercentual, Len(ev.votes)))
        => ev.result = Undefined

\* C3: whenever calcFinalPoints gives final points, they are the point value
\* with the highest count of the round and, among the values of that count,
\* the numerically highest one.
C3_HighestCountThenHighestValue ==
    (ev.pc = "done" /\ ev.minPercentual > 0 /\ ev.result # Undefined) =>
        /\ CountOf(ev.votes, ev.result) > 0
        /\ \A p \in EvalPoints :
              \/ CountOf(ev.votes, p) < CountOf(ev.votes, ev.result)
              \/ /\ CountOf(ev.votes, p) = CountOf(ev.votes, ev.result)
                 /\ p <= ev.result

\* C4: under every interleaving of calls of vote, the task never holds two
\* votes of the same user and round, and a stored vote is never changed or
\* removed: a second submission is refused, not written over the first.
C4_AtMostOneVote ==
    /\ [](\A i, j \in DOMAIN votes :
            (votes[i].user = votes[j].user /\ votes[i].round = votes[j].round)
                => i = j)
    /\ [][\A i \in DOMAIN votes :
              i \in DOMAIN votes' /\ votes'[i] = votes[i]]_vars

\* a second vote of the same user and round got past the check of vote and
\* was refused by the store
C4_Witness ==
    /\ last.outcome = "Conflict"
    /\ \E i \in DOMAIN votes :
          votes[i].user = last.user /\ votes[i].round = last.round

\* the user has a stored vote in a round in which not every user of the
\* squad has voted
OpenVote(u) ==
    \E i \in DOMAIN votes :
        /\ votes[i].user = u
        /\ Cardinality(VotersIn(votes, votes[i].round)) < SquadSize

\* C5: a user whose vote was stored in a round that is not complete yet gets
\* DuplicateVote for every further vote with valid points on the open task,
\* and that call stores no vote.
C5_DuplicateUntilComplete ==
    [][(ThresholdInRange /\ last'.valid /\ task.active
            /\ OpenVote(last'.user))
          => (last'.outcome = "DuplicateVote" /\ votes' = votes)]_vars

\* C6: currentRound changes only in a call that completes a round without
\* finalizing the task, and then by exactly 1; a vote into a round still
\* incomplete and a vote that finalizes leave it unchanged.
C6_RoundChangesOnlyOnAdvance ==
    [][(ThresholdInRange /\ task'.currentRound # task.currentRound)
          => /\ last'.outcome = "Updated"
             /\ last'.complete
             /\ ~task'.finished
             /\ task'.currentRound = task.currentRound + 1]_vars

\* C7: currentRound never exceeds maxRounds.
C7_RoundWithinMax ==
    ThresholdInRange => task.currentRound <= task.maxRounds

\* C8: the call that completes the round numbered maxRounds finalizes the
\* task, and a task with maxRounds * squad size stored votes is finished.
C8_FinalizesWithinMaxRounds ==
    /\ [][(/\ ThresholdInRange
           /\ last'.outcome = "Updated"
           /\ votes' # votes
           /\ last'.round = task.maxRounds
           /\ VotersIn(votes', last'.round) = squadUsers)
              => task'.finished]_vars
    /\ []((ThresholdInRange /\ Len(votes) >= task.maxRounds * SquadSize)
              => task.finished)

\* C9: when the votes of several users, stored by overlapping calls, make a
\* round hold a vote of every user of the squad, exactly one of those calls
\* took the round-complete branch (one finalize-or-advance decision),
\* whatever the interleaving.  (Every update moves currentRound on, so two
\* votes of one round always come from calls that overlapped.)
C9_ExactlyOneCompletion ==
    \A r \in 1..task.currentRound :
        (/\ ThresholdInRange
         /\ SquadSize >= 2
         /\ VotersIn(votes, r) = squadUsers)
            => Cardinality({c \in completions : c.round = r}) = 1

\* C10 as stated: once the task is finished, every call of vote that starts
\* is rejected as TaskNotVotable, whatever its points, and changes nothing.
C10_FinishedRejectsAsNotVotable ==
    [][(ThresholdInRange /\ task.finished /\ ~UpdateStep)
          => /\ last'.outcome = "TaskNotVotable"
             /\ task' = task /\ votes' = votes /\ calls' = calls]_vars

\* C10 amended: once the task is finished, every call of vote that starts is
\* rejected and changes neither the task nor its votes; the rejection is
\* TaskNotVotable for points that are an integer >= 0 and InvalidPoints for
\* any other points (the points are checked first).
C10_FinishedRejects ==
    [][(task.finished /\ ~UpdateStep)
          => /\ last'.outcome =
                    IF last'.valid THEN "TaskNotVotable" ELSE "InvalidPoints"
             /\ task' = task /\ votes' = votes /\ calls' = calls]_vars

\* a vote with valid points was turned away from the finished task
C10_Witness ==
    /\ task.finished
    /\ task.points # Undefined
    /\ last.outcome = "TaskNotVotable"
    /\ last.valid

\* C11: in every state of the task, under every interleaving of calls of
\* vote, finished implies not active, and the final points are set if and
\* only if the task is finished.
C11_FinishedClosedWithPoints ==
    /\ task.finished => ~task.active
    /\ (task.points # Undefined) <=> task.finished

\* a call of vote has finalized the task
C11_Witness ==
    /\ task.finished
    /\ ~task.active
    /\ task.points # Undefined
    /\ last.outcome = "Updated"

\* C12: every call of vote that stored its vote (vote accepted, round
\* advanced or task finalized) has broadcast an event: the handlers have
\* published one event per stored vote.
C12_EveryStoredVotePublished ==
    Len(events) = Len(votes)

\* two vote lists hold the same points, each as many times
SameVotes(a, b) ==
    /\ Len(a) = Len(b)
    /\ \A p \in EvalPoints : CountOf(a, p) = CountOf(b, p)

\* C16: calcFinalPoints depends on the multiset of the points and on
\* (currentRound, maxRounds, percentual) only: every ordering of the same
\* votes gives the same result.
C16_OrderIndependent ==
    (ev.pc = "done" /\ ev.minPercentual > 0) =>
        \A o \in EvalVotes :
            SameVotes(o, ev.votes) =>
                calcFinalPoints(o, ev.currentRound, ev.maxRounds,
                                ev.minPercentual) = ev.result

\* the reasons with which the checks of vote turn a call away
Rejections ==
    {"InvalidPoints", "TaskNotVotable", "NotSquadMember", "DuplicateVote"}

\* C18: a call of vote that one of the checks turns away leaves the task
\* row and the stored votes as they were.
C18_RejectedChangesNothing ==
    [][last'.outcome \in Rejections => (task' = task /\ votes' = votes)]_vars

\* a call was turned away from a task that already holds votes
C18_Witness ==
    /\ last.outcome \in Rejections
    /\ Len(votes) > 0

\* the votes of the round of the most recent call, as stored
LastRoundVotes == SelectSeq(votes, LAMBDA v : v.round = last.round)

\* C19: when a call completes a round and the evaluation selects the point
\* value 0, the task is finalized with final points 0, finished and not
\* active, as for any other value.
C19_ZeroFinalizes ==
    (/\ ThresholdInRange
     /\ last.outcome = "Updated"
     /\ last.complete
     /\ calcFinalPoints(LastRoundVotes, last.round, task.maxRounds,
                        task.percentual) = 0)
        => (task.points = 0 /\ task.finished /\ ~task.active)

\* C20: the points evaluated when a round completes are the votes of that
\* round, one of every user of the squad, and the final points of a task
\* are the evaluation of those votes.
C20_EvaluatesWholeRound ==
    (ThresholdInRange /\ last.outcome = "Updated" /\ task.finished) =>
        /\ Len(LastRoundVotes) = SquadSize
        /\ VotersIn(votes, last.round) = squadUsers
        /\ task.points = calcFinalPoints(LastRoundVotes, last.round,
                                         task.maxRounds, task.percentual)

\* the four checks of a submission, each on its own
FailsPoints == ~(va.pin.isInteger /\ va.pin.value >= 0)
FailsVotable == ~(va.task.active /\ ~va.task.finished)
FailsMember == va.email \notin va.squad
FailsDuplicate ==
    \E i \in DOMAIN va.votes :
        /\ va.votes[i].user = va.email
        /\ va.votes[i].round = va.task.currentRound

\* C17: the reason reported for a submission is that of the first failing
\* check in the order InvalidPoints, TaskNotVotable, NotSquadMember,
\* DuplicateVote, each check with a reason of its own; a submission that
\* fails none passes.
C17_FirstFailingCheck ==
    va.pc = "done" =>
        va.result = IF FailsPoints THEN "InvalidPoints"
                    ELSE IF FailsVotable THEN "TaskNotVotable"
                    ELSE IF FailsMember THEN "NotSquadMember"
                    ELSE IF FailsDuplicate THEN "DuplicateVote"
                    ELSE "Ok"

\* a submission with valid points failed the three other checks at once
C17_Witness ==
    /\ va.pc = "done"
    /\ ~FailsPoints /\ FailsVotable /\ FailsMember /\ FailsDuplicate
    /\ va.result = "TaskNotVotable"

\* C13: a failure while publishing never fails the operation: a handler
\* whose state change was persisted answers with success, whatever the
\* broadcast or the registration of the session does.
C13_PublishFailureIsolated ==
    resp.persisted => resp.status = "ok"

\* C14: an event is broadcast only after its state change was persisted:
\* when the statement of update, addUsers or createTask fails, the handler
\* broadcasts nothing, changes nothing and passes the error on.
C14_NoEventWithoutPersist ==
    [][(resp'.op \in {"update", "addUsers", "createTask"}
            /\ ~resp'.persisted)
          => /\ resp'.status = "error"
             /\ events' = events
             /\ squadRow' = squadRow /\ squadUsers' = squadUsers]_vars

\* createTask failed to persist while sessions were listening, and
\* nothing was broadcast
C14_Witness ==
    /\ resp = [op |-> "createTask", status |-> "error", persisted |-> FALSE]
    /\ channel.exists /\ channel.subs # {}
    /\ events = <<>>

\* C15: when addUsers adds a user to the squad and answers with success,
\* the addedUser event reaches every session registered on the squad's
\* channel at that moment, whether the added user has a session or not.
C15_AddedUserReachesSubscribers ==
    [][(/\ resp'.op = "addUsers"
        /\ resp'.status = "ok"
        /\ squadUsers' # squadUsers
        /\ channel.subs # {})
          => /\ Len(events') = Len(events) + 1
             /\ events'[Len(events')].event = "addedUser"
             /\ channel.subs \subseteq events'[Len(events')].to]_vars

\* C21: once delUsers has removed a user from the squad, the user's session
\* gets no event broadcast on the squad's channel any more: every event of
\* the channel reaches sessions of the squad's present users only, also
\* when an earlier addUsers had registered the session on the channel.
C21_RemovedUserGetsNoEvents ==
    [][Len(events') > Len(events)
          => events'[Len(events')].to \subseteq squadUsers']_vars

\* C22: a task is created with maxRounds and percentual of its squad
\* exactly where the request gives null or nothing for the field, a value
\* given in the request is kept as it is, and for a squad that does not
\* exist the create fails and no task row is stored.
C22_DefaultsFromSquad ==
    tc.pc = "done" =>
        LET squad == tc.squads[tc.data.squadId]
        IN  IF ~squad.exists
            THEN tc.status = "error" /\ tc.tasks = <<>>
            ELSE /\ tc.status = "ok"
                 /\ Len(tc.tasks) = 1
                 /\ tc.tasks[1].squadId = tc.data.squadId
                 /\ \A f \in {"maxRounds", "percentual"} :
                        tc.tasks[1][f] =
                            IF tc.data[f] \in {Null, Undefined}
                            THEN squad[f] ELSE tc.data[f]

\* a request giving maxRounds 0 and percentual null got a task with
\* maxRounds 0 and the percentual of its own squad, not of the other one
C22_Witness ==
    /\ tc.pc = "done" /\ tc.status = "ok"
    /\ tc.data.maxRounds = 0 /\ tc.data.percentual = Null
    /\ \A s \in SquadIds : tc.squads[s].exists
    /\ \E s \in SquadIds :
           tc.squads[s].percentual # tc.squads[tc.data.squadId].percentual
    /\ tc.tasks[1].maxRounds = 0
    /\ tc.tasks[1].percentual = tc.squads[tc.data.squadId].percentual

\* the first row of rows carrying the squad id
FirstRowOf(rows, id) ==
    CHOOSE i \in DOMAIN rows :
        /\ rows[i].squadId = id
        /\ \A j \in DOMAIN rows : rows[j].squadId = id => i <= j

\* C23: fromSquadDb gives one entry for every squad id among its rows, in
\* the order in which the ids first appear, the members of an entry being
\* the users of the rows with the entry's squad id: rows of squads with
\* different ids never end up in one entry.
C23_OneEntryPerSquadId ==
    sdb.pc = "done" =>
        LET rows == sdb.rows
            res == sdb.result
        IN  /\ {res[i].id : i \in DOMAIN res}
                   = {rows[k].squadId : k \in DOMAIN rows}
            /\ \A i, j \in DOMAIN res :
                   i < j => /\ res[i].id # res[j].id
                            /\ FirstRowOf(rows, res[i].id)
                                   < FirstRowOf(rows, res[j].id)
            /\ \A i \in DOMAIN res :
                   {res[i].members[m] : m \in DOMAIN res[i].members}
                       = {rows[k].userId :
                             k \in {n \in DOMAIN rows :
                                       rows[n].squadId = res[i].id}}

====
